---- MODULE Spec2Model ----
(***************************************************************************)
(* Tunnel establishment of terraform-provider-mysql: configuration         *)
(* resolution (port_forward.ParseSessionConfig, ParsePFConfigMap,          *)
(* ParsePFConfig), strategy dispatch and setup/unwind (port_forward.Connect,*)
(* sessionConfig.connect, portFowardConfig.Connect) as driven by           *)
(* providerConfigure, the trust-on-first-use host key callback             *)
(* (createHostKeyCallback), and the accept loop and copy goroutines of     *)
(* portFowardConfig.PortForward.                                           *)
(***************************************************************************)
EXTENDS Integers, Sequences, FiniteSets, TLC

VARIABLES
    cfg,        \* the raw provider configuration (schema.ResourceData)
    env,        \* the process environment: OS user, key files, AWS session
    pc,         \* position of providerConfigure
    sessConf,   \* *sessionConfig returned by ParseSessionConfig
    pfConfMap,  \* map[string]string handed from the block parsers to ParsePFConfig
    pfConf,     \* *portFowardConfig returned by ParsePFConfig
    err,        \* the error providerConfigure returns (a multierror as a sequence)
    log,        \* resource acquisitions and releases, in program order
    knownHosts, \* ~/.ssh/known_hosts: the lines of the trust file
    cbDB,       \* the host key database held by the host-key callback instance
    last,       \* the latest host key verification and its outcome
    trusted,    \* (hostname, key) pairs recorded by a first-use append
    cause,      \* the error of the setup step that made Connect fail
    relErrs,    \* the errors the release calls of the unwind returned, in order
    proxyCmd,   \* the session-manager-plugin command line sessionManagerPlugin built
    listener,   \* the net.Listener of PortForward
    loop,       \* the accept goroutine of PortForward: its position, its last report
    backlog,    \* local clients that connected and were not yet accepted
    client,     \* each local client: idle, connected or refused
    remoteConn, \* per accepted connection, the channel sshClient.Dial returned
    sock,       \* the accepted local conns and the remote channels
    task        \* the two copy goroutines of each accepted connection

cfgVars   == <<cfg, env, pc, sessConf, pfConfMap, pfConf, err, log, cause, relErrs, proxyCmd>>
trustVars == <<knownHosts, cbDB, last, trusted>>
fwdVars   == <<listener, loop, backlog, client, remoteConn, sock, task>>
vars      == <<cfg, env, pc, sessConf, pfConfMap, pfConf, err, log, cause, relErrs, proxyCmd,
               knownHosts, cbDB, last, trusted,
               listener, loop, backlog, client, remoteConn, sock, task>>

----------------------------------------------------------------------------
(* Go values *)

\* a nil error; a non-nil error is the sequence of its messages (go-multierror)
NoError == <<>>

\* fmt.Errorf(msg)
Errorf(msg) == <<msg>>

\* multierror.Append(e, f): the messages of e followed by those of f
MultiAppend(e, f) == e \o f

\* the nil map[string]string and a made map
NilMap == [nil |-> TRUE, m |-> <<>>]

MakeMap(m) == [nil |-> FALSE, m |-> m]

\* v, ok := confMap[k]; ok && v != "" : the value, or "" when absent
MapGet(cm, k) == IF k \in DOMAIN cm.m THEN cm.m[k] ELSE ""

\* m[k] = v
MapPut(m, k, v) == [x \in (DOMAIN m) \cup {k} |-> IF x = k THEN v ELSE m[x]]

EmptyMap == [x \in {} |-> ""]

\* PortForward has not run: no listener, no accept goroutine, no connection
NotForwarding ==
    /\ listener = "none"
    /\ loop = [pc |-> "none", conn |-> 0, why |-> ""]
    /\ backlog = <<>>
    /\ client = <<>>
    /\ remoteConn = <<>>
    /\ sock = <<>>
    /\ task = <<>>

\* the nil *sessionConfig
NilSess == [nil |-> TRUE, instanceID |-> "", session |-> FALSE, region |-> "",
            profile |-> ""]

\* no command line was built
NoCmd == [made |-> FALSE, region |-> "", profile |-> "", localPortNumber |-> 0]

\* the nil *portFowardConfig
NilPF == [nil |-> TRUE, sshUser |-> "", keyPath |-> "", localPort |-> 0,
          remoteEndpoint |-> "", dbEndpoint |-> "", useRemotePortForward |-> FALSE]

\* &portFowardConfig{}
ZeroPF == [NilPF EXCEPT !.nil = FALSE]

----------------------------------------------------------------------------
(* The configuration surface *)

SSHPort == 22

\* ~/.ssh/id_rsa
HomeKey == "~/.ssh/id_rsa"

GoodKey == "/keys/good"

MissingKey == "/keys/missing"

\* a block (aws_ssm_session_manager_client_config, port_forward_client_config) is
\* "unset", "malformed" (a list whose element is nil) or "set"

\* use_remote_port_forward as confMap holds it: a bool, or no bool under the key
NoFlag == [present |-> FALSE, value |-> FALSE]

Flags == {NoFlag, [present |-> TRUE, value |-> TRUE], [present |-> TRUE, value |-> FALSE]}

UnsetBroker == [state |-> "unset", ec2_instance_id |-> "", rds_endpoint |-> "",
                use_remote_port_forward |-> NoFlag, ssh_user |-> "",
                ssh_key_path |-> "", region |-> "", aws_profile |-> ""]

BrokerBlocks ==
    {UnsetBroker, [UnsetBroker EXCEPT !.state = "malformed"]} \cup
    [state : {"set"}, ec2_instance_id : {"", "i-1"}, rds_endpoint : {"", "db"},
     use_remote_port_forward : Flags,
     ssh_user : {"", "bob"}, ssh_key_path : {"", MissingKey},
     region : {"", "r1"}, aws_profile : {""}]

UnsetDirect == [state |-> "unset", remote_host |-> "", db_endpoint |-> "",
                ssh_user |-> "", ssh_key_path |-> ""]

DirectBlocks ==
    {UnsetDirect, [UnsetDirect EXCEPT !.state = "malformed"]} \cup
    [state : {"set"}, remote_host : {"", "bastion"}, db_endpoint : {"", "db"},
     ssh_user : {"", "bob"}, ssh_key_path : {"", GoodKey, MissingKey}]

\* endpoint: "host:port", a host without port, or an absolute unix socket path
\* (the text after the first ':' is portText)
\* as its characters
Port3306 == <<"3", "3", "0", "6">>

Endpoints == {[form |-> "hostport", portText |-> Port3306],
              [form |-> "host", portText |-> <<>>],
              [form |-> "unix", portText |-> <<>>]}

Configs == [broker : BrokerBlocks, direct : DirectBlocks, endpoint : Endpoints]

\* user.Current(): an error (nil user), or a user whose name may be empty;
\* os.UserHomeDir() and the key file under it; session.NewSessionWithOptions
\* and the AWS_PROFILE, AWS_DEFAULT_PROFILE and AWS_SDK_LOAD_CONFIG variables
Envs == {e \in [userOK : BOOLEAN, userName : {"", "alice"}, homeOK : BOOLEAN,
                  homeKey : BOOLEAN, sessionOK : BOOLEAN,
                  AWS_PROFILE : {""}, AWS_DEFAULT_PROFILE : {""},
                  AWS_SDK_LOAD_CONFIG : {FALSE}] :
            /\ (~e.userOK => e.userName = "")
            /\ (~e.homeOK => ~e.homeKey)}

\* a host with a user, a home directory and a key, and no AWS variable set
HostEnv == [userOK |-> TRUE, userName |-> "alice", homeOK |-> TRUE,
            homeKey |-> TRUE, sessionOK |-> TRUE,
            AWS_PROFILE |-> "", AWS_DEFAULT_PROFILE |-> "",
            AWS_SDK_LOAD_CONFIG |-> FALSE]

----------------------------------------------------------------------------
(* Helpers of the parsers *)

\* strconv.FormatBool
FormatBool(b) == IF b THEN "true" ELSE "false"

Digits == {"0", "1", "2", "3", "4", "5", "6", "7", "8", "9"}

DigitValue(c) == CASE c = "0" -> 0 [] c = "1" -> 1 [] c = "2" -> 2 [] c = "3" -> 3
                   [] c = "4" -> 4 [] c = "5" -> 5 [] c = "6" -> 6 [] c = "7" -> 7
                   [] c = "8" -> 8 [] OTHER -> 9

\* the value of a run of decimal digits, most significant first
RECURSIVE Decimal(_)
Decimal(s) == IF s = <<>> THEN 0
              ELSE 10 * Decimal(SubSeq(s, 1, Len(s) - 1)) + DigitValue(s[Len(s)])

\* strconv.Atoi with its error dropped (lp, _ := ...): an optional sign and
\* decimal digits give the number, anything else gives 0
Atoi(s) ==
    LET signed == s # <<>> /\ s[1] \in {"+", "-"}
        d      == IF signed THEN Tail(s) ELSE s
    IN  IF d = <<>> \/ \E i \in 1..Len(d) : d[i] \notin Digits THEN 0
        ELSE IF signed /\ s[1] = "-" THEN 0 - Decimal(d)
        ELSE Decimal(d)

\* uint16(lp)
Uint16(n) == n % 65536

\* defaultSSHKeyPath(): "" when the home directory is unknown
defaultSSHKeyPath(e) == IF e.homeOK THEN HomeKey ELSE ""

\* os.Stat(path) succeeds
FileExists(e, path) == \/ path = GoodKey
                       \/ (path = HomeKey /\ e.homeKey)

\* fmt.Sprintf("%s:22", host)
HostPort22(host) == host \o ":22"

\* the outcome of a parser: its results, or a panic of the process
Returned(sess, cm, pf, e) == [panic |-> FALSE, sess |-> sess, map |-> cm, pf |-> pf, err |-> e]

Panicked == [panic |-> TRUE, sess |-> NilSess, map |-> NilMap, pf |-> NilPF, err |-> NoError]

\* (conf *sessionConfig) validate()
sessionValidate(sc) ==
    LET e1 == IF sc.instanceID = ""
              THEN MultiAppend(NoError, Errorf("not set ec2_instance_id"))
              ELSE NoError
    IN  IF ~sc.session
        THEN MultiAppend(e1, Errorf("AWS configure is not a valid"))
        ELSE e1

\* (pfConf *portFowardConfig) validate() without the os.Stat of the key path
pfValidate_NoStat(pf, e) ==
    IF pf.sshUser = "" THEN MultiAppend(NoError, Errorf("not set ssh_user")) ELSE NoError

\* (pfConf *portFowardConfig) validate()
pfValidate(pf, e) ==
    LET e1 == IF pf.sshUser = ""
              THEN MultiAppend(NoError, Errorf("not set ssh_user"))
              ELSE NoError
    IN  IF ~FileExists(e, pf.keyPath)
        THEN MultiAppend(e1, Errorf("ssh_key_path is not exist"))
        ELSE e1

\* a schema string with DefaultFunc: schema.MultiEnvDefaultFunc(ks, ""): the value
\* written in the configuration, else the first non-empty variable of ks
RECURSIVE MultiEnvDefault(_, _)
MultiEnvDefault(v, ks) ==
    IF v # "" THEN v
    ELSE IF ks = <<>> THEN ""
    ELSE MultiEnvDefault(Head(ks), Tail(ks))

\* ParseSessionConfig(d): (sessionConf, pfConf map, error)
ParseSessionConfig(c, e) ==
    LET b  == c.broker
        sc == [nil |-> FALSE, instanceID |-> b.ec2_instance_id,
               session |-> e.sessionOK, region |-> b.region,
               profile |-> MultiEnvDefault(b.aws_profile,
                                           <<e.AWS_PROFILE, e.AWS_DEFAULT_PROFILE>>)]
        m0 == MapPut(EmptyMap, "remote_endpoint", HostPort22(sc.instanceID))
        m1 == IF b.rds_endpoint # "" THEN MapPut(m0, "db_endpoint", b.rds_endpoint) ELSE m0
        m2 == IF b.use_remote_port_forward.present
              THEN MapPut(m1, "use_remote_port_forward",
                          FormatBool(b.use_remote_port_forward.value))
              ELSE m1
        u  == IF b.ssh_user # "" THEN b.ssh_user ELSE e.userName
        k  == IF b.ssh_key_path # "" THEN b.ssh_key_path ELSE defaultSSHKeyPath(e)
        m3 == MapPut(MapPut(m2, "ssh_user", u), "ssh_key_path", k)
    IN  IF b.state = "unset" THEN Returned(NilSess, NilMap, NilPF, NoError)
        ELSE IF b.state = "malformed"
        THEN Returned(NilSess, NilMap, NilPF, Errorf("parseSessionConfig's format validate"))
        ELSE IF sessionValidate(sc) # NoError
        THEN Returned(NilSess, NilMap, NilPF, sessionValidate(sc))
        ELSE IF MapGet(MakeMap(m2), "use_remote_port_forward") = "false"
        THEN IF ~e.userOK THEN Panicked
             ELSE Returned(sc, MakeMap(m3), NilPF, NoError)
        ELSE Returned(sc, MakeMap(m2), NilPF, NoError)

\* ParsePFConfigMap(d): (pfConf map, error)
ParsePFConfigMap(c, e) ==
    LET b  == c.direct
        m0 == IF b.remote_host # ""
              THEN MapPut(EmptyMap, "remote_endpoint", HostPort22(b.remote_host))
              ELSE EmptyMap
        m1 == IF b.db_endpoint # "" THEN MapPut(m0, "db_endpoint", b.db_endpoint) ELSE m0
        u  == IF b.ssh_user # "" THEN b.ssh_user ELSE e.userName
        k  == IF b.ssh_key_path # "" THEN b.ssh_key_path ELSE defaultSSHKeyPath(e)
        m2 == MapPut(MapPut(m1, "ssh_user", u), "ssh_key_path", k)
    IN  IF b.state = "unset" THEN Returned(NilSess, NilMap, NilPF, NoError)
        ELSE IF b.state = "malformed"
        THEN Returned(NilSess, NilMap, NilPF, Errorf("portForwardConfig's format validate"))
        ELSE IF ~e.userOK THEN Panicked
        ELSE Returned(NilSess, MakeMap(m2), NilPF, NoError)

\* the flag of ParsePFConfig: v, ok := confMap["use_remote_port_forward"]; ok && v != ""
ParseUseRemotePortForward(cm) == MapGet(cm, "use_remote_port_forward") # ""

\* ParsePFConfig without its confMap == nil return: a nil map fails the length check
ParsePFConfig_NoNilReturn(cm, localPort, e) ==
    IF cm.nil \/ DOMAIN cm.m = {}
    THEN Returned(NilSess, NilMap, NilPF, Errorf("parseSSHConfig's format validate"))
    ELSE Returned(NilSess, NilMap, [ZeroPF EXCEPT !.localPort = localPort], NoError)

\* ParsePFConfig filling sshUser and keyPath before its remote-forward return
ParsePFConfig_SSHFieldsFirst(cm, localPort, e) ==
    LET u == IF MapGet(cm, "ssh_user") # "" THEN MapGet(cm, "ssh_user") ELSE e.userName
        k == IF MapGet(cm, "ssh_key_path") # "" THEN MapGet(cm, "ssh_key_path")
             ELSE defaultSSHKeyPath(e)
        c == [ZeroPF EXCEPT !.localPort = localPort,
                            !.remoteEndpoint = MapGet(cm, "remote_endpoint"),
                            !.dbEndpoint = MapGet(cm, "db_endpoint"),
                            !.useRemotePortForward = ParseUseRemotePortForward(cm),
                            !.sshUser = u, !.keyPath = k]
    IN  IF cm.nil THEN Returned(NilSess, NilMap, NilPF, NoError)
        ELSE IF DOMAIN cm.m = {}
        THEN Returned(NilSess, NilMap, NilPF, Errorf("parseSSHConfig's format validate"))
        ELSE IF ~e.userOK /\ ~c.useRemotePortForward THEN Panicked
        ELSE IF ~c.useRemotePortForward /\ pfValidate(c, e) # NoError
        THEN Returned(NilSess, NilMap, NilPF, pfValidate(c, e))
        ELSE Returned(NilSess, NilMap, c, NoError)

\* ParsePFConfig(confMap, localPort): (*portFowardConfig, error)
ParsePFConfig(cm, localPort, e) ==
    LET c0 == [ZeroPF EXCEPT !.localPort = localPort,
                             !.remoteEndpoint = MapGet(cm, "remote_endpoint"),
                             !.dbEndpoint = MapGet(cm, "db_endpoint"),
                             !.useRemotePortForward = ParseUseRemotePortForward(cm)]
        u  == IF MapGet(cm, "ssh_user") # "" THEN MapGet(cm, "ssh_user") ELSE e.userName
        k  == IF MapGet(cm, "ssh_key_path") # "" THEN MapGet(cm, "ssh_key_path")
              ELSE defaultSSHKeyPath(e)
        c1 == [c0 EXCEPT !.sshUser = u, !.keyPath = k]
    IN  IF cm.nil THEN Returned(NilSess, NilMap, NilPF, NoError)
        ELSE IF DOMAIN cm.m = {}
        THEN Returned(NilSess, NilMap, NilPF, Errorf("parseSSHConfig's format validate"))
        ELSE IF c0.useRemotePortForward THEN Returned(NilSess, NilMap, c0, NoError)
        ELSE IF ~e.userOK THEN Panicked
        ELSE IF pfValidate(c1, e) # NoError
        THEN Returned(NilSess, NilMap, NilPF, pfValidate(c1, e))
        ELSE Returned(NilSess, NilMap, c1, NoError)

\* the strategy Connect dispatches to: Connect (nil checks), then connect's branch
Strategy(sc, pf) ==
    IF pf.nil THEN "None"
    ELSE IF sc.nil THEN "DirectSSH"
    ELSE IF pf.useRemotePortForward THEN "BrokerRemoteForward"
    ELSE "BrokerSSHCarrier"

----------------------------------------------------------------------------
(* Host key trust: createHostKeyCallback over ~/.ssh/known_hosts *)

\* how many host key verifications a behaviour makes
MaxVerify == 3

\* a network address host:port
Addr(host, port) == [host |-> host, port |-> port]

\* the address of an end of net.Pipe(): its String() is "pipe"
PipeAddr == Addr("pipe", 0)

\* bastions of the direct block (a DNS name and an IP literal) and broker targets
DirectHosts == {"bastion", "10.0.0.5"}

Instances == {"i-1"}

\* the address a TCP dial to host reaches (conn.RemoteAddr())
Resolve(host) == IF host = "bastion" THEN "10.0.0.5" ELSE host

\* public keys a server may present
Keys == {[typ |-> "ssh-rsa", id |-> 1], [typ |-> "ssh-rsa", id |-> 2],
         [typ |-> "ssh-ed25519", id |-> 3]}

\* knownhosts.Line([]string{address}, key): the host pattern is the normalized
\* address (the port kept only if it is not 22), followed by the key
Line(a, key) == [host |-> a.host, port |-> a.port, key |-> key]

\* a line of the database matches an address: same host, same port
LineMatches(l, a) == l.host = a.host /\ l.port = a.port

\* hostKeyDB.checkAddr: knownKeys holds, per key type, the first matching line's key
KnownKeys(db, a) ==
    {db[i].key : i \in {j \in 1..Len(db) :
        /\ LineMatches(db[j], a)
        /\ \A m \in 1..(j - 1) : ~(LineMatches(db[m], a) /\ db[m].key.typ = db[j].key.typ)}}

\* the callback of knownhosts.New: nil, or a KeyError with Want (the known keys):
\* the host looked up is the hostname given, not the remote address
KnownHostsCheck(db, hostname, key) ==
    LET want == KnownKeys(db, hostname)
    IN  IF want = {} THEN [keyError |-> TRUE, want |-> {}]
        ELSE IF key \in want THEN [keyError |-> FALSE, want |-> {}]
        ELSE [keyError |-> TRUE, want |-> want]

\* the remote address the callback works with: the hostname in place of a pipe
CallbackRemote(hostname, remote) == IF remote = PipeAddr THEN hostname ELSE remote

\* the identity under which a first-use key is written to the file
RecordedAddr(hostname, remote) == CallbackRemote(hostname, remote)

\* the database the callback checks against: the one read when it was created
CheckedDB(db, file) == db

\* the callback returned by createHostKeyCallback, on the trust file `file`:
\* its result, the file after it, and whether os.OpenFile or the write failed
HostKeyCallback(db, file, hostname, remote, key, openOK, writeOK) ==
    LET r == KnownHostsCheck(CheckedDB(db, file), hostname, key)
    IN  IF ~r.keyError THEN [result |-> "ok", file |-> file, fault |-> FALSE]
        ELSE IF r.want # {} THEN [result |-> "mismatch", file |-> file, fault |-> FALSE]
        ELSE IF ~openOK THEN [result |-> "error", file |-> file, fault |-> TRUE]
        ELSE IF ~writeOK THEN [result |-> "ok", file |-> file, fault |-> TRUE]
        ELSE [result |-> "ok", fault |-> FALSE,
              file |-> Append(file, Line(RecordedAddr(hostname, remote), key))]

NoCallback == [made |-> FALSE, lines |-> <<>>]

NoVerification == [n |-> 0, hostname |-> Addr("", 0), key |-> [typ |-> "", id |-> 0],
                   result |-> "", appended |-> FALSE, fault |-> FALSE]

\* the trust file before the first run: empty, or one host already recorded
InitialKnownHosts ==
    {<<>>} \cup {<<Line(Addr(h, SSHPort), k)>> : h \in {"10.0.0.5", "i-1"}, k \in Keys}

\* createHostKeyCallback: knownhosts.New(knownHosts) reads the file
NewHostKeyCallback ==
    /\ cbDB' = [made |-> TRUE, lines |-> knownHosts]
    /\ UNCHANGED <<knownHosts, last, trusted, cfgVars, fwdVars>>

\* one verification by the callback in hand (cbDB.made), and its record
Verify(hostname, remote, key) ==
    /\ \E openOK, writeOK \in BOOLEAN :
          LET r == HostKeyCallback(cbDB.lines, knownHosts, hostname, remote, key, openOK, writeOK)
          IN  /\ knownHosts' = r.file
              /\ last' = [n |-> last.n + 1, hostname |-> hostname, key |-> key,
                          result |-> r.result, appended |-> r.file # knownHosts,
                          fault |-> r.fault]
              /\ trusted' = IF r.file # knownHosts
                            THEN trusted \cup {[host |-> hostname, key |-> key]}
                            ELSE trusted
    /\ UNCHANGED <<cbDB, cfgVars, fwdVars>>

\* the handshake of CreateSSHClient: ssh.Dial("tcp", remoteEndpoint, sshConf)
VerifyDirect ==
    /\ cbDB.made
    /\ last.n < MaxVerify
    /\ \E h \in DirectHosts, k \in Keys :
          Verify(Addr(h, SSHPort), Addr(Resolve(h), SSHPort), k)

\* the handshake of CreateSSHClientWithProxyCommand:
\* ssh.NewClientConn(c, pfConf.remoteEndpoint, sshConf) over net.Pipe()
VerifyPipe ==
    /\ cbDB.made
    /\ last.n < MaxVerify
    /\ \E i \in Instances, k \in Keys :
          Verify(Addr(i, SSHPort), PipeAddr, k)

InitTrust ==
    /\ cfg = [broker |-> UnsetBroker, direct |-> UnsetDirect,
              endpoint |-> [form |-> "hostport", portText |-> Port3306]]
    /\ env = HostEnv
    /\ proxyCmd = NoCmd
    /\ pc = "handshake"
    /\ sessConf = NilSess
    /\ pfConfMap = NilMap
    /\ pfConf = NilPF
    /\ err = NoError
    /\ log = <<>>
    /\ cause = NoError
    /\ relErrs = <<>>
    /\ NotForwarding
    /\ knownHosts \in InitialKnownHosts
    /\ cbDB = NoCallback
    /\ last = NoVerification
    /\ trusted = {}

NextTrust ==
    \/ NewHostKeyCallback
    \/ VerifyDirect
    \/ VerifyPipe

SpecTrust == InitTrust /\ [][NextTrust]_vars

----------------------------------------------------------------------------
(* Properties of host key trust *)

\* a verification has just been made, the trust file being writable if written
Verified == last'.n = last.n + 1 /\ ~last'.fault

\* C8: once a hostname is trusted with key K by a first-use append, every later
\* verification of that hostname with another key ends in a mismatch and
\* appends nothing, through the same callback or one created after a restart.
C8_MismatchNeverAccepted ==
    [][(Verified /\ \E t \in trusted : t.host = last'.hostname /\ t.key # last'.key)
          => (last'.result = "mismatch" /\ knownHosts' = knownHosts)]_vars

\* C9: verifying the same (hostname, key) twice in succession appends at most
\* one record in total, and the second verification returns no error.
C9_VerifyIdempotent ==
    [][(Verified /\ last.n >= 1 /\ last.result = "ok" /\ ~last.fault
          /\ last'.hostname = last.hostname /\ last'.key = last.key)
          => (last'.result = "ok" /\ ~(last.appended /\ last'.appended))]_vars

----------------------------------------------------------------------------
(* Tunnel establishment: the steps of Connect and what each leaves behind *)

\* the outcome of a setup step: the events it adds to the log, the error it
\* returns, whether establishment goes on, and of a failed step the error that
\* made it fail (cause) and the errors its release calls returned (rel)
Step(ev, e, ok) == [ev |-> ev, err |-> e, ok |-> ok,
                    cause |-> IF ok THEN NoError ELSE e, rel |-> <<>>]

\* a step that failed with cause c, released with the calls of u and returns e
Unwound(ev, e, c, rel) == [ev |-> ev, err |-> e, ok |-> FALSE, cause |-> c, rel |-> rel]

\* a failed step st followed by the unwind u of its caller
Then(st, u) == Unwound(st.ev \o u.ev, u.err, st.cause, st.rel \o u.rel)

\* the close closure of openSession / openRemotePortForwardSession:
\* one TerminateSession request, and its error
closeSession(ok) == Step(<<"TerminateSession">>, IF ok THEN NoError ELSE Errorf("TerminateSession"), ok)

\* openSession / openRemotePortForwardSession: svc.StartSession, the close
\* closure, sessionManagerPlugin (on its error: defer close())
openSession(startOK, pluginOK, closeOK) ==
    IF ~startOK THEN Step(<<"StartSessionFailed">>, Errorf("StartSession"), FALSE)
    ELSE IF ~pluginOK
    THEN Unwound(<<"StartSession">> \o closeSession(closeOK).ev, Errorf("sessionManagerPlugin"),
                 Errorf("sessionManagerPlugin"), closeSession(closeOK).err)
    ELSE Step(<<"StartSession">>, NoError, TRUE)

\* getAWSProfile(): AWS_PROFILE, else AWS_DEFAULT_PROFILE when
\* AWS_SDK_LOAD_CONFIG parses as true
getAWSProfile(e) ==
    IF e.AWS_PROFILE # "" THEN e.AWS_PROFILE
    ELSE IF e.AWS_SDK_LOAD_CONFIG THEN e.AWS_DEFAULT_PROFILE
    ELSE ""

\* "localPortNumber": strconv.Itoa(int(localPort)) of openRemotePortForwardSession
localPortNumber(localPort) == localPort

\* sessionManagerPlugin(svc, in, out): exec.Command(command, out, region,
\* "StartSession", profile, in, endpoint) with region := *svc.Config.Region and
\* profile := getAWSProfile(); lpn is the localPortNumber parameter of in
sessionManagerPlugin(sc, e, lpn) ==
    [made |-> TRUE, region |-> sc.region, profile |-> getAWSProfile(e),
     localPortNumber |-> lpn]

\* connect's unwind after CreateSSHClientConfig or CreateSSHClientWithProxyCommand
\* failed: errors := err; if err := closeSession(); err != nil
\* { errors = multierror.Append(err) }; closeSession(); return errors
unwindSession(e, ok1, ok2) ==
    Unwound(closeSession(ok1).ev \o closeSession(ok2).ev,
            IF ~ok1 THEN MultiAppend(NoError, closeSession(ok1).err) ELSE e,
            e, closeSession(ok1).err \o closeSession(ok2).err)

\* CreateSSHClientConfig: read and parse the key, createHostKeyCallback
CreateSSHClientConfig(ok) ==
    IF ok THEN Step(<<>>, NoError, TRUE) ELSE Step(<<>>, Errorf("CreateSSHClientConfig"), FALSE)

\* CreateSSHClientWithProxyCommand: proxyCmd.Start, then ssh.NewClientConn over
\* the pipe (on its error: defer done(), which kills the process)
CreateSSHClientWithProxyCommand(startOK, handshakeOK) ==
    IF ~startOK THEN Step(<<"ProcStartFailed">>, Errorf("proxyCmd.Start"), FALSE)
    ELSE IF ~handshakeOK
    THEN Step(<<"ProcStart", "HandshakeFailed", "ProcKill">>, Errorf("ssh.NewClientConn"), FALSE)
    ELSE Step(<<"ProcStart", "SSHClient">>, NoError, TRUE)

\* CreateSSHClient with the error of ssh.Dial ignored by its caller
CreateSSHClient_IgnoresError(ok) ==
    IF ok THEN Step(<<"SSHDial", "SSHClient">>, NoError, TRUE)
    ELSE Step(<<"SSHDial", "HandshakeFailed">>, NoError, TRUE)

\* CreateSSHClient: ssh.Dial("tcp", remoteEndpoint, sshConf)
CreateSSHClient(ok) ==
    IF ok THEN Step(<<"SSHDial", "SSHClient">>, NoError, TRUE)
    ELSE Step(<<"SSHDial", "HandshakeFailed">>, Errorf("ssh.Dial"), FALSE)

\* PortForward up to its return: net.Listen on the local port, go accept loop
PortForward(ok) ==
    IF ok THEN Step(<<"Listen">>, NoError, TRUE)
    ELSE Step(<<"ListenFailed">>, Errorf("net.Listen"), FALSE)

\* connect's unwind after PortForward failed: sshClient.Close, killProxyCmd,
\* closeSession, each error replacing errors by multierror.Append(err)
unwindAll(e, okClient, okKill, okSession) ==
    LET r1 == IF okClient THEN NoError ELSE Errorf("sshClient.Close")
        r2 == IF okKill THEN NoError ELSE Errorf("Process.Kill")
        r3 == closeSession(okSession).err
        e1 == IF r1 # NoError THEN MultiAppend(NoError, r1) ELSE e
        e2 == IF r2 # NoError THEN MultiAppend(NoError, r2) ELSE e1
        e3 == IF r3 # NoError THEN MultiAppend(NoError, r3) ELSE e2
    IN  Unwound(<<"SSHClose", "ProcKill">> \o closeSession(okSession).ev, e3,
                e, r1 \o r2 \o r3)

\* portFowardConfig.Connect's return after PortForward failed: return err
unwindDirect(e) == Step(<<>>, e, FALSE)

\* connect's return after proxyCmd.Start failed in the remote-forward branch
unwindRemoteForward(e) == Step(<<>>, e, FALSE)

\* the release operations Connect hands to its caller: Connect returns an error
\* and nothing else; closeSession, killProxyCmd, sshClient and the listener
\* are locals of connect, portFowardConfig.Connect and PortForward
TunnelHandle == {}

----------------------------------------------------------------------------
(* providerConfigure *)

Init ==
    /\ cfg \in Configs
    /\ env \in Envs
    /\ pc = "start"
    /\ sessConf = NilSess
    /\ pfConfMap = NilMap
    /\ pfConf = NilPF
    /\ err = NoError
    /\ log = <<>>
    /\ cause = NoError
    /\ relErrs = <<>>
    /\ proxyCmd = NoCmd
    /\ NotForwarding
    /\ knownHosts = <<>>
    /\ cbDB = NoCallback
    /\ last = NoVerification
    /\ trusted = {}

\* pc, err and log after a parser returned r; next is the position on success
AfterParse(r, next, ev) ==
    /\ pc' = IF r.panic THEN "panic" ELSE IF r.err # NoError THEN "failed" ELSE next
    /\ err' = IF r.panic THEN NoError ELSE r.err
    /\ log' = log \o ev
    /\ UNCHANGED <<cause, relErrs, proxyCmd>>

\* sessionConf, pfConfMap, err := port_forward.ParseSessionConfig(d)
DoParseSessionConfig ==
    /\ pc = "start"
    /\ LET r == ParseSessionConfig(cfg, env)
       IN  /\ AfterParse(r, "sess", <<"ParseSessionConfig">>)
           /\ sessConf' = r.sess
           /\ pfConfMap' = r.map
    /\ UNCHANGED <<cfg, env, pfConf, trustVars, fwdVars>>

\* providerConfigure calling ParsePFConfigMap whatever ParseSessionConfig returned
DoParsePFConfigMap_Always ==
    /\ pc = "sess"
    /\ LET r == ParsePFConfigMap(cfg, env)
       IN  /\ AfterParse(r, "map", <<"ParsePFConfigMap">>)
           /\ pfConfMap' = IF r.map.nil THEN pfConfMap ELSE r.map
    /\ UNCHANGED <<cfg, env, sessConf, pfConf, trustVars, fwdVars>>

\* if pfConfMap == nil { pfConfMap, err = port_forward.ParsePFConfigMap(d) }
DoParsePFConfigMap ==
    /\ pc = "sess"
    /\ IF pfConfMap.nil
       THEN LET r == ParsePFConfigMap(cfg, env)
            IN  /\ AfterParse(r, "map", <<"ParsePFConfigMap">>)
                /\ pfConfMap' = r.map
       ELSE /\ pc' = "map"
            /\ UNCHANGED <<pfConfMap, err, log, cause, relErrs, proxyCmd>>
    /\ UNCHANGED <<cfg, env, sessConf, pfConf, trustVars, fwdVars>>

\* lp, _ := strconv.Atoi(strings.SplitN(endpoint, ":", 2)[1]);
\* pfConf, err := port_forward.ParsePFConfig(pfConfMap, uint16(lp))
DoParsePFConfig ==
    /\ pc = "map"
    /\ IF cfg.endpoint.form # "hostport"
       THEN /\ pc' = "panic"
            /\ UNCHANGED <<pfConf, err, log, cause, relErrs, proxyCmd>>
       ELSE LET r == ParsePFConfig(pfConfMap, Uint16(Atoi(cfg.endpoint.portText)), env)
            IN  /\ AfterParse(r, "plan", <<"ParsePFConfig">>)
                /\ pfConf' = r.pf
    /\ UNCHANGED <<cfg, env, sessConf, pfConfMap, trustVars, fwdVars>>

\* what Connect(sessConf, pfConf) does: return nil, pfConf.Connect(), sessConf.connect(pfConf)
ConnectCallee(sc, pf) ==
    IF pf.nil THEN "return nil"
    ELSE IF sc.nil THEN "pfConf.Connect"
    ELSE "sessConf.connect"

\* port_forward.Connect(sessionConf, pfConf): the dispatch
DoConnect ==
    /\ pc = "plan"
    /\ pc' = CASE Strategy(sessConf, pfConf) = "None" -> "done"
               [] Strategy(sessConf, pfConf) = "DirectSSH" -> "d_config"
               [] Strategy(sessConf, pfConf) = "BrokerRemoteForward" -> "r_open"
               [] OTHER -> "c_open"
    /\ log' = log \o <<"Connect", ConnectCallee(sessConf, pfConf)>>
    /\ UNCHANGED <<cfg, env, sessConf, pfConfMap, pfConf, err, cause, relErrs, proxyCmd,
                   trustVars, fwdVars>>

\* pc, err and log after setup step st; next is the position on success
AfterStep(st, next) ==
    /\ pc' = IF st.ok THEN next ELSE "failed"
    /\ err' = st.err
    /\ log' = log \o st.ev
    /\ cause' = st.cause
    /\ relErrs' = st.rel
    /\ UNCHANGED <<cfg, env, sessConf, pfConfMap, pfConf, trustVars, fwdVars>>

\* cmd, err := sessionManagerPlugin(svc, in, out) after StartSession returned:
\* the command line is built unless the step failed before or in it
AfterOpen(startOK, pluginOK, lpn) ==
    proxyCmd' = IF startOK /\ pluginOK THEN sessionManagerPlugin(sessConf, env, lpn)
                ELSE proxyCmd

\* connect, remote-forward branch: openRemotePortForwardSession
RemoteOpenSession ==
    /\ pc = "r_open"
    /\ \E startOK, pluginOK, closeOK \in BOOLEAN :
          /\ AfterStep(openSession(startOK, pluginOK, closeOK), "r_start")
          /\ AfterOpen(startOK, pluginOK, localPortNumber(pfConf.localPort))

\* connect, remote-forward branch: proxyCmd.Start(); go proxyCmd.Wait()
RemoteStartProxy ==
    /\ pc = "r_start"
    /\ \E startOK \in BOOLEAN :
          IF startOK THEN AfterStep(Step(<<"ProcStart">>, NoError, TRUE), "done")
          ELSE AfterStep(Then(Step(<<"ProcStartFailed">>, Errorf("proxyCmd.Start"), FALSE),
                              unwindRemoteForward(Errorf("proxyCmd.Start"))), "done")
    /\ UNCHANGED proxyCmd

\* connect, carrier branch: openSession
CarrierOpenSession ==
    /\ pc = "c_open"
    /\ \E startOK, pluginOK, closeOK \in BOOLEAN :
          /\ AfterStep(openSession(startOK, pluginOK, closeOK), "c_config")
          /\ AfterOpen(startOK, pluginOK, 0)

\* connect, carrier branch: pfConf.CreateSSHClientConfig() and its unwind
CarrierSSHConfig ==
    /\ pc = "c_config"
    /\ \E ok, ok1, ok2 \in BOOLEAN :
          LET st == CreateSSHClientConfig(ok)
              u  == unwindSession(st.err, ok1, ok2)
          IN  IF st.ok THEN AfterStep(st, "c_ssh")
              ELSE AfterStep(Then(st, u), "c_ssh")
    /\ UNCHANGED proxyCmd

\* connect, carrier branch: pfConf.CreateSSHClientWithProxyCommand and its unwind
CarrierSSHClient ==
    /\ pc = "c_ssh"
    /\ \E startOK, handshakeOK, ok1, ok2 \in BOOLEAN :
          LET st == CreateSSHClientWithProxyCommand(startOK, handshakeOK)
              u  == unwindSession(st.err, ok1, ok2)
          IN  IF st.ok THEN AfterStep(st, "c_forward")
              ELSE AfterStep(Then(st, u), "c_forward")
    /\ UNCHANGED proxyCmd

\* connect, carrier branch: pfConf.PortForward(sshClient) and its unwind
CarrierPortForward ==
    /\ pc = "c_forward"
    /\ \E ok, okClient, okKill, okSession \in BOOLEAN :
          LET st == PortForward(ok)
              u  == unwindAll(st.err, okClient, okKill, okSession)
          IN  IF st.ok THEN AfterStep(st, "done")
              ELSE AfterStep(Then(st, u), "done")
    /\ UNCHANGED proxyCmd

\* portFowardConfig.Connect: pfConf.CreateSSHClientConfig()
DirectSSHConfig ==
    /\ pc = "d_config"
    /\ \E ok \in BOOLEAN : AfterStep(CreateSSHClientConfig(ok), "d_ssh")
    /\ UNCHANGED proxyCmd

\* portFowardConfig.Connect: pfConf.CreateSSHClient(sshConfig)
DirectSSHClient ==
    /\ pc = "d_ssh"
    /\ \E ok \in BOOLEAN : AfterStep(CreateSSHClient(ok), "d_forward")
    /\ UNCHANGED proxyCmd

\* portFowardConfig.Connect: pfConf.PortForward(client)
DirectPortForward ==
    /\ pc = "d_forward"
    /\ \E ok \in BOOLEAN :
          LET st == PortForward(ok)
              u  == unwindDirect(st.err)
          IN  IF st.ok THEN AfterStep(st, "done")
              ELSE AfterStep(Then(st, u), "done")
    /\ UNCHANGED proxyCmd

\* providerConfigure returning (nil, err) as well as (&MySQLConfiguration{}, nil)
ConfigReturned_Always(p) == p \in {"done", "failed"}

\* providerConfigure has returned &MySQLConfiguration{...}, nil: every parser and
\* Connect returned a nil error (each "if err != nil { return nil, err }" passed)
ConfigReturned(p) == p = "done"

\* connectToMySQL(conf): sql.Open and db.Ping on the returned configuration
ConnectToMySQL ==
    /\ ConfigReturned(pc)
    /\ "connectToMySQL" \notin {log[i] : i \in 1..Len(log)}
    /\ log' = Append(log, "connectToMySQL")
    /\ UNCHANGED <<cfg, env, pc, sessConf, pfConfMap, pfConf, err, cause, relErrs,
                   proxyCmd, trustVars, fwdVars>>

Next ==
    \/ DoParseSessionConfig
    \/ DoParsePFConfigMap
    \/ DoParsePFConfig
    \/ DoConnect
    \/ RemoteOpenSession
    \/ RemoteStartProxy
    \/ CarrierOpenSession
    \/ CarrierSSHConfig
    \/ CarrierSSHClient
    \/ CarrierPortForward
    \/ DirectSSHConfig
    \/ DirectSSHClient
    \/ DirectPortForward
    \/ ConnectToMySQL

Spec == Init /\ [][Next]_vars

----------------------------------------------------------------------------
(* providerConfigure over valid tunnel configurations, with the endpoint's   *)
(* port text, aws_profile and the AWS_* variables varied                     *)

\* what follows the first ':' of the endpoints "db:3306", "db:70000",
\* "db:65535", "db:080" and "[::1]:3306"
PortTexts == {Port3306,
              <<"7", "0", "0", "0", "0">>,
              <<"6", "5", "5", "3", "5">>,
              <<"0", "8", "0">>,
              <<":", "1", "]", ":", "3", "3", "0", "6">>}

ArgBrokerBlocks ==
    {UnsetBroker} \cup
    [state : {"set"}, ec2_instance_id : {"i-1"}, rds_endpoint : {"db"},
     use_remote_port_forward : Flags, ssh_user : {""}, ssh_key_path : {""},
     region : {"r1"}, aws_profile : {"", "prod"}]

ArgDirectBlocks ==
    {UnsetDirect,
     [state |-> "set", remote_host |-> "bastion", db_endpoint |-> "db",
      ssh_user |-> "", ssh_key_path |-> GoodKey]}

ArgEnvs == [userOK : {TRUE}, userName : {"alice"}, homeOK : {TRUE},
            homeKey : {TRUE}, sessionOK : {TRUE},
            AWS_PROFILE : {"", "dev"}, AWS_DEFAULT_PROFILE : {"", "base"},
            AWS_SDK_LOAD_CONFIG : BOOLEAN]

InitArgs ==
    /\ cfg \in [broker : ArgBrokerBlocks, direct : ArgDirectBlocks,
                 endpoint : [form : {"hostport"}, portText : PortTexts]]
    /\ env \in ArgEnvs
    /\ pc = "start"
    /\ sessConf = NilSess
    /\ pfConfMap = NilMap
    /\ pfConf = NilPF
    /\ err = NoError
    /\ log = <<>>
    /\ cause = NoError
    /\ relErrs = <<>>
    /\ proxyCmd = NoCmd
    /\ NotForwarding
    /\ knownHosts = <<>>
    /\ cbDB = NoCallback
    /\ last = NoVerification
    /\ trusted = {}

SpecArgs == InitArgs /\ [][Next]_vars

----------------------------------------------------------------------------
(* PortForward: the accept goroutine and the copy goroutines *)

\* the local clients that may connect
MaxConns == 2

\* the bytes the local clients and the database write, in total
MaxBytes == 2

\* the ends that local clients and the database close or reset, in total
MaxHangups == 1

Conns == 1..MaxConns

Dirs == {"up", "down"}

\* localConn of the connection accepted for client c
Local(c) == <<"local", c>>

\* remoteConn: the n-th channel sshClient.Dial opened
Channel(n) == <<"remote", n>>

SockIds == {Local(c) : c \in Conns} \cup {Channel(n) : n \in Conns}

\* a net.Conn of the program: state of the program's end (none, open, closed),
\* the peer's end (the local client's, the database's: open, closed),
\* the number w of bytes the peer wrote, how many of them the program has read
\* (rd) and the bytes the program wrote to it (out)
NoSock == [state |-> "none", peer |-> "open", w |-> 0, rd |-> 0, out |-> <<>>]

\* the k-th byte the peer of conn s writes
Byte(s, k) == <<s, k>>

\* the bytes the peer of conn s has written
Sent(s) == [k \in 1..sock[s].w |-> Byte(s, k)]

\* a copy goroutine: whether it is in io.Copy(dst, src) or has ended, why it
\* ended, and the conns its closure captured
NoTask == [pc |-> "none", why |-> "", src |-> <<"none", 0>>, dst |-> <<"none", 0>>]

\* go func() { ... io.Copy(dst, src) ... }()
Spawn(src, dst) == [pc |-> "copy", why |-> "", src |-> src, dst |-> dst]

\* the loop on Accept's result taking a timeout for a failure
AfterAccept_TimeoutEnds(kind) == IF kind = "conn" THEN "dial" ELSE "exited"

\* the accept loop after listener.Accept() returned: a connection goes on to
\* Dial, a timeout error continues the loop, any other error returns
AfterAccept(kind) ==
    CASE kind = "conn" -> "dial"
      [] kind = "timeout" -> "accept"
      [] OTHER -> "exited"

\* the accept loop after sshClient.Dial returned: on an error, return
AfterDial(ok) == IF ok THEN "accept" ELSE "exited"

\* what the accept loop has last written to os.Stderr: a timeout is not
\* reported, fmt.Fprintln(os.Stderr, "accept failed: ", err) reports the rest
AcceptReport(kind) == IF kind = "error" THEN "accept failed" ELSE loop.why

\* fmt.Fprintln(os.Stderr, "dial failed: ", err)
DialReport(ok) == IF ok THEN loop.why ELSE "dial failed"

\* defer listener.Close() of the accept goroutine
DeferredListenerClose(nextpc) == IF nextpc = "exited" THEN "closed" ELSE listener

\* Dial handing out the channel it opened first
NewChannel_Same(n) == 1

\* the channel sshClient.Dial opens when n channels were opened before
NewChannel(n) == n + 1

\* a goroutine whose return closes every channel of the SSH client
Deferred_ClosesClient(d, t) == {t.src, t.dst} \cup {Channel(n) : n \in Conns}

\* the conns a copy goroutine closes when it returns: local->remote has
\* defer localConn.Close() and defer remoteConn.Close(), remote->local has none
Deferred(d, t) == IF d = "up" THEN {t.src, t.dst} ELSE {}

\* Close() on each conn of cl that is open
Closed(sk, cl) ==
    [s \in DOMAIN sk |-> IF s \in cl /\ sk[s].state = "open"
                         THEN [sk[s] EXCEPT !.state = "closed"] ELSE sk[s]]

\* dst.Write writing its buffer twice over
WriteTo_Twice(out, buf) == out \o buf \o buf

\* dst.Write(buf[0:nr]): the bytes are appended to what dst was given before
WriteTo(out, buf) == out \o buf

RECURSIVE SumW(_, _)
SumW(sk, ids) ==
    IF ids = {} THEN 0
    ELSE LET s == CHOOSE x \in ids : TRUE IN sk[s].w + SumW(sk, ids \ {s})

\* the bytes written by all peers so far
TotalWritten == SumW(sock, SockIds)

InitForward ==
    /\ cfg = [broker |-> UnsetBroker, direct |-> UnsetDirect,
              endpoint |-> [form |-> "hostport", portText |-> Port3306]]
    /\ env = HostEnv
    /\ proxyCmd = NoCmd
    /\ pc = "forward"
    /\ sessConf = NilSess
    /\ pfConfMap = NilMap
    /\ pfConf = NilPF
    /\ err = NoError
    /\ log = <<"Listen">>
    /\ cause = NoError
    /\ relErrs = <<>>
    /\ knownHosts = <<>>
    /\ cbDB = NoCallback
    /\ last = NoVerification
    /\ trusted = {}
    /\ listener = "open"
    /\ loop = [pc |-> "accept", conn |-> 0, why |-> ""]
    /\ backlog = <<>>
    /\ client = [c \in Conns |-> "idle"]
    /\ remoteConn = [c \in Conns |-> 0]
    /\ sock = [s \in SockIds |-> NoSock]
    /\ task = [c \in Conns |-> [up |-> NoTask, down |-> NoTask]]

\* a local client connects to the local port: queued while the listener is
\* open, refused once it is closed
ClientConnect(c) ==
    /\ client[c] = "idle"
    /\ \A d \in Conns : d < c => client[d] # "idle"
    /\ IF listener = "open"
       THEN /\ client' = [client EXCEPT ![c] = "connected"]
            /\ backlog' = Append(backlog, c)
       ELSE /\ client' = [client EXCEPT ![c] = "refused"]
            /\ UNCHANGED backlog
    /\ UNCHANGED <<listener, loop, remoteConn, sock, task, cfgVars, trustVars>>

\* the peer of conn s writes its next byte, s being open at this end
PeerWrite(s) ==
    /\ sock[s].peer = "open"
    /\ sock[s].state = "open"
    /\ TotalWritten < MaxBytes
    /\ sock' = [sock EXCEPT ![s].w = @ + 1]
    /\ UNCHANGED <<listener, loop, backlog, client, remoteConn, task, cfgVars, trustVars>>

\* the ends the peers have closed so far
Hangups == Cardinality({s \in SockIds : sock[s].peer # "open"})

\* the peer of conn s closes its end, in order (the program reads io.EOF after
\* the bytes written) or by a reset (the program's reads and writes fail)
PeerClose(s) ==
    /\ sock[s].peer = "open"
    /\ sock[s].state = "open"
    /\ Hangups < MaxHangups
    /\ sock' = [sock EXCEPT ![s].peer = "closed"]
    /\ UNCHANGED <<listener, loop, backlog, client, remoteConn, task, cfgVars, trustVars>>

\* the local client of a forwarded connection (what a client does before the
\* copy goroutines run is read by them as if done after)
ClientWrite == \E c \in Conns : task[c].up.pc # "none" /\ PeerWrite(Local(c))

ClientClose == \E c \in Conns : task[c].up.pc # "none" /\ PeerClose(Local(c))

DatabaseWrite == \E n \in Conns : sock[Channel(n)].peer = "open" /\ PeerWrite(Channel(n))

DatabaseClose == \E n \in Conns : sock[Channel(n)].peer = "open" /\ PeerClose(Channel(n))

\* select { case <-done: return; default: }; localConn, err := listener.Accept()
\* and the branch on err (done is never closed)
LoopAccept ==
    /\ loop.pc = "accept"
    /\ listener = "open"
    /\ \E kind \in {"conn", "timeout", "error"} :
          /\ kind = "conn" => backlog # <<>>
          /\ LET c == IF kind = "conn" THEN Head(backlog) ELSE 0
             IN  /\ loop' = [pc |-> AfterAccept(kind), conn |-> c, why |-> AcceptReport(kind)]
                 /\ listener' = DeferredListenerClose(AfterAccept(kind))
                 /\ backlog' = IF kind = "conn" THEN Tail(backlog) ELSE backlog
                 /\ sock' = IF kind = "conn"
                            THEN [sock EXCEPT ![Local(c)].state = "open"] ELSE sock
    /\ UNCHANGED <<client, remoteConn, task, cfgVars, trustVars>>

\* remoteConn, err := sshClient.Dial("tcp", pfConf.dbEndpoint); on an error
\* return, else start the two copy goroutines and loop
LoopDial ==
    /\ loop.pc = "dial"
    /\ \E ok \in BOOLEAN :
          LET c  == loop.conn
              ch == NewChannel(Cardinality({d \in Conns : remoteConn[d] # 0}))
          IN  /\ loop' = [pc |-> AfterDial(ok), conn |-> IF ok THEN 0 ELSE c,
                          why |-> DialReport(ok)]
              /\ listener' = DeferredListenerClose(AfterDial(ok))
              /\ IF ok
                 THEN /\ remoteConn' = [remoteConn EXCEPT ![c] = ch]
                      /\ sock' = [sock EXCEPT ![Channel(ch)].state = "open"]
                      /\ task' = [task EXCEPT ![c] = [up |-> Spawn(Local(c), Channel(ch)),
                                                      down |-> Spawn(Channel(ch), Local(c))]]
                 ELSE UNCHANGED <<remoteConn, sock, task>>
    /\ UNCHANGED <<backlog, client, cfgVars, trustVars>>

\* io.Copy has returned in goroutine d of connection c for the reason why, sk
\* being the conns at that point: the goroutine logs an error and returns, and
\* its deferred calls run
EndCopy(c, d, why, sk) ==
    /\ task' = [task EXCEPT ![c][d] = [@ EXCEPT !.pc = "ended", !.why = why]]
    /\ sock' = Closed(sk, Deferred(d, task[c][d]))

\* one round of io.Copy(dst, src) in goroutine d of connection c:
\* src.Read(buf) returns bytes, io.EOF (the peer closed in order) or an error
\* (the peer reset, or src was closed here); dst.Write(buf[0:nr]) writes all of
\* the bytes read, or fails having written fewer (dst was closed here, or its
\* peer is gone)
Copy(c, d) ==
    /\ task[c][d].pc = "copy"
    /\ LET t == task[c][d]
           s == sock[t.src]
       IN  \/ /\ s.state = "closed"
              /\ EndCopy(c, d, "closed", sock)
           \/ /\ s.state = "open" /\ s.peer = "closed"
              /\ EndCopy(c, d, "error", sock)
           \/ /\ s.state = "open" /\ s.peer = "closed" /\ s.rd = s.w
              /\ EndCopy(c, d, "eof", sock)
           \/ /\ s.state = "open"
              /\ \E j \in (s.rd + 1)..(s.w) :
                    LET buf == [k \in 1..(j - s.rd) |-> Byte(t.src, s.rd + k)]
                        rd  == [sock EXCEPT ![t.src].rd = j]
                    IN  IF sock[t.dst].state # "open"
                        THEN EndCopy(c, d, "error", rd)
                        ELSE \/ /\ sock' = [rd EXCEPT ![t.dst].out = WriteTo(@, buf)]
                                /\ UNCHANGED task
                             \/ /\ sock[t.dst].peer # "open"
                                /\ \E n \in 0..(Len(buf) - 1) :
                                      EndCopy(c, d, "error",
                                              [rd EXCEPT ![t.dst].out = WriteTo(@, SubSeq(buf, 1, n))])
    /\ UNCHANGED <<listener, loop, backlog, client, remoteConn, cfgVars, trustVars>>

LocalConnect == \E c \in Conns : client[c] = "idle" /\ ClientConnect(c)

CopyUp == \E c \in Conns : task[c].up.pc = "copy" /\ Copy(c, "up")

CopyDown == \E c \in Conns : task[c].down.pc = "copy" /\ Copy(c, "down")

NextForward ==
    \/ LocalConnect
    \/ ClientWrite
    \/ ClientClose
    \/ DatabaseWrite
    \/ DatabaseClose
    \/ LoopAccept
    \/ LoopDial
    \/ CopyUp
    \/ CopyDown

SpecForward == InitForward /\ [][NextForward]_vars

----------------------------------------------------------------------------
(* Properties of configuration resolution and establishment *)

Range(q) == {q[i] : i \in 1..Len(q)}

\* the log entries that name a resource being acquired, released or attempted
ResourceEvents == {"StartSession", "StartSessionFailed", "TerminateSession",
                   "ProcStart", "ProcStartFailed", "ProcKill", "SSHDial",
                   "SSHClient", "HandshakeFailed", "SSHClose", "Listen", "ListenFailed"}

\* resolution has ended without a panic: with a plan (or none), or with an error
ResolutionEnded == pc \notin {"start", "sess", "map", "panic"}

ResolutionFailed == pc = "failed" /\ "Connect" \notin Range(log)

BrokerSet == cfg.broker.state = "set"

DirectOnly == cfg.broker.state = "unset" /\ cfg.direct.state = "set"

FlagTrue == cfg.broker.use_remote_port_forward.present /\ cfg.broker.use_remote_port_forward.value

\* C1: with the broker block present, use_remote_port_forward = true resolves to
\* the native remote-forward strategy and false or absent to the SSH-carrier
\* strategy; with only the direct-SSH block present the strategy is direct SSH.
C1_StrategySelection ==
    ~pfConf.nil =>
        /\ (BrokerSet /\ FlagTrue => Strategy(sessConf, pfConf) = "BrokerRemoteForward")
        /\ (BrokerSet /\ ~FlagTrue => Strategy(sessConf, pfConf) = "BrokerSSHCarrier")
        /\ (DirectOnly => Strategy(sessConf, pfConf) = "DirectSSH")

\* C2: with both blocks unset, every parser yields nil with a nil error, and
\* Connect(nil, nil) returns nil having started no session, client, process or listener.
C2_NoBlocksNoPlan ==
    (cfg.broker.state = "unset" /\ cfg.direct.state = "unset") =>
        /\ sessConf.nil /\ pfConfMap.nil /\ pfConf.nil
        /\ err = NoError
        /\ pc \in {"start", "sess", "map", "plan", "done", "panic"}
        /\ Range(log) \cap ResourceEvents = {}
        /\ ("Connect" \in Range(log) => pc = "done" /\ "return nil" \in Range(log))

C2_Witness ==
    /\ cfg.broker.state = "unset" /\ cfg.direct.state = "unset"
    /\ pc = "done"
    /\ log = <<"ParseSessionConfig", "ParsePFConfigMap", "ParsePFConfig", "Connect", "return nil">>

\* C3: with both blocks present the broker block wins: the direct-SSH block is
\* never parsed, a plan is a broker plan, and Connect runs sessionConfig.connect
\* and never dials the bastion of the direct block over TCP.
C3_BrokerPrecedence ==
    (cfg.broker.state # "unset" /\ cfg.direct.state # "unset") =>
        /\ "ParsePFConfigMap" \notin Range(log)
        /\ (~pfConf.nil =>
               /\ Strategy(sessConf, pfConf) \in {"BrokerRemoteForward", "BrokerSSHCarrier"}
               /\ pfConf.remoteEndpoint = HostPort22(cfg.broker.ec2_instance_id))
        /\ ("Connect" \in Range(log) => "sessConf.connect" \in Range(log))
        /\ "pfConf.Connect" \notin Range(log)
        /\ "SSHDial" \notin Range(log)

C3_Witness ==
    /\ cfg.broker.state = "set" /\ cfg.direct.state = "set"
    /\ cfg.direct.remote_host = "bastion"
    /\ Strategy(sessConf, pfConf) = "BrokerSSHCarrier"
    /\ pc = "done"
    /\ "SSHClient" \in Range(log) /\ "Listen" \in Range(log)

\* the SSH principal the configuration asks for: the block's value, else the default
WantedUser(block) == IF block.ssh_user # "" THEN block.ssh_user ELSE env.userName

WantedKey(block) == IF block.ssh_key_path # "" THEN block.ssh_key_path ELSE defaultSSHKeyPath(env)

\* the requirements a well-formed configuration violates, by the message that names each
Violations ==
    LET b == cfg.broker
        d == cfg.direct
        ssh == IF BrokerSet THEN ~FlagTrue ELSE DirectOnly
        blk == IF BrokerSet THEN b ELSE d
    IN  IF ~(BrokerSet \/ DirectOnly) THEN {}
        ELSE (IF BrokerSet /\ b.ec2_instance_id = "" THEN {"not set ec2_instance_id"} ELSE {})
             \cup (IF BrokerSet /\ b.region = "" THEN {"not set region"} ELSE {})
             \cup (IF (BrokerSet /\ b.rds_endpoint = "") \/ (DirectOnly /\ d.db_endpoint = "")
                   THEN {"not set rds_endpoint"} ELSE {})
             \cup (IF ssh /\ WantedUser(blk) = "" THEN {"not set ssh_user"} ELSE {})
             \cup (IF ssh /\ ~FileExists(env, WantedKey(blk))
                   THEN {"ssh_key_path is not exist"} ELSE {})

\* C4: validation reports every violation of the configuration in one error: the
\* error of configuration resolution mentions each violated requirement.
C4_AllViolationsReported ==
    (ResolutionEnded /\ "Connect" \notin Range(log)) => Violations \subseteq Range(err)

\* C5: a broker configuration whose region resolves to "" fails resolution with
\* a validation error, and no broker session is started.
C5_EmptyRegionRejected ==
    (BrokerSet /\ cfg.broker.region = "") =>
        /\ pfConf.nil
        /\ (ResolutionEnded => err # NoError)
        /\ "StartSession" \notin Range(log)

\* C6: resolution rejects a direct-SSH configuration with an empty bastion host
\* and a broker configuration with an empty database endpoint: an error, no plan.
C6_EmptyHostOrEndpointRejected ==
    ((DirectOnly /\ cfg.direct.remote_host = "") \/ (BrokerSet /\ cfg.broker.rds_endpoint = "")) =>
        /\ pfConf.nil
        /\ (ResolutionEnded => err # NoError)

\* C7: a plan of an SSH-bearing strategy has a non-empty user and a key file
\* that exists; an unset ssh_user is the OS user and an unset ssh_key_path is
\* ~/.ssh/id_rsa; a failed resolution yields no plan and acquires no resource.
C7_SSHPrincipalResolved ==
    /\ (~pfConf.nil /\ Strategy(sessConf, pfConf) \in {"DirectSSH", "BrokerSSHCarrier"}) =>
          LET blk == IF sessConf.nil THEN cfg.direct ELSE cfg.broker
          IN  /\ pfConf.sshUser # ""
              /\ FileExists(env, pfConf.keyPath)
              /\ (blk.ssh_user = "" => env.userOK /\ pfConf.sshUser = env.userName)
              /\ (blk.ssh_key_path = "" => env.homeOK /\ pfConf.keyPath = HomeKey)
    /\ ResolutionFailed => (pfConf.nil /\ err # NoError /\ Range(log) \cap ResourceEvents = {})

C7_Witness ==
    /\ DirectOnly
    /\ cfg.direct.ssh_user = "" /\ cfg.direct.ssh_key_path = ""
    /\ pfConf.sshUser = "alice" /\ pfConf.keyPath = HomeKey
    /\ pc = "done" /\ "Listen" \in Range(log)

\* the resources a log acquired and released, in order
Resource(ev) ==
    CASE ev \in {"StartSession", "TerminateSession"} -> "session"
      [] ev \in {"ProcStart", "ProcKill"} -> "process"
      [] ev \in {"SSHClient", "SSHClose"} -> "client"
      [] OTHER -> "listener"

IsAcquire(ev) == ev \in {"StartSession", "ProcStart", "SSHClient", "Listen"}

IsRelease(ev) == ev \in {"TerminateSession", "ProcKill", "SSHClose"}

RECURSIVE MapResource(_)
MapResource(q) == IF q = <<>> THEN <<>> ELSE <<Resource(Head(q))>> \o MapResource(Tail(q))

RECURSIVE Reverse(_)
Reverse(q) == IF q = <<>> THEN <<>> ELSE Append(Reverse(Tail(q)), Head(q))

Acquired == MapResource(SelectSeq(log, IsAcquire))

Released == MapResource(SelectSeq(log, IsRelease))

\* C10: when establishment fails, what it released is exactly what it had
\* acquired, each resource once, in reverse order of acquisition.
C10_UnwindReleasesAcquired ==
    (pc = "failed" /\ "Connect" \in Range(log)) => Released = Reverse(Acquired)

\* Connect has returned an error
ConnectFailed == pc = "failed" /\ "Connect" \in Range(log)

\* C11: when a setup step fails and release calls of the unwind fail too, the
\* error returned to the caller holds the original cause and every release
\* error; none is dropped or replaced.
C11_CauseAndReleaseErrorsReturned ==
    ConnectFailed =>
        /\ Range(cause) \subseteq Range(err)
        /\ Range(relErrs) \subseteq Range(err)

\* C12: in both broker modes, when the session was started and the bridging
\* process could not be built or did not start, TerminateSession has been
\* issued by the time the error is returned.
C12_StartedSessionTerminated ==
    (ConnectFailed /\ "StartSession" \in Range(log)
        /\ cause \in {Errorf("sessionManagerPlugin"), Errorf("proxyCmd.Start")})
      => "TerminateSession" \in Range(log)

\* C13: an established tunnel gives its caller a teardown that releases the
\* listener, the SSH client, the proxy process and the broker session it holds.
C13_TeardownReleasesAll ==
    (pc = "done" /\ "Listen" \in Range(log)) =>
        \A r \in Range(Acquired) : r \in TunnelHandle

\* the number of times event e is in log q
Count(q, e) == Len(SelectSeq(q, LAMBDA x : x = e))

\* C14: on every path of establishment at most one TerminateSession request is
\* issued per started session.
C14_TerminateAtMostOnce ==
    Count(log, "TerminateSession") <= Count(log, "StartSession")

----------------------------------------------------------------------------
(* Properties of the accept loop and of forwarding *)

\* connection c is forwarded: Dial gave it a channel and its goroutines run
Forwarding(c) == remoteConn[c] # 0

\* both conns of connection c are open at this end
BothOpen(c) ==
    /\ sock[Local(c)].state = "open"
    /\ sock[Channel(remoteConn[c])].state = "open"

\* goroutine d of connection c returns in this step
TaskEnds(c, d) == task[c][d].pc = "copy" /\ task'[c][d].pc = "ended"

\* C15: a failed sshClient.Dial for one accepted connection ends that
\* connection's setup only: the accept loop keeps running and the listener
\* stays open.
C15_DialFailureKeepsLoop ==
    loop.why = "dial failed" => (loop.pc # "exited" /\ listener = "open")

\* C16: a timeout from Accept never ends the accept loop; any other Accept
\* error ends it; once the loop has ended the listener is closed and a local
\* client that connects then is refused.
C16_AcceptErrorPolicy ==
    [][/\ (loop'.pc = "exited" =>
              (loop'.why \in {"accept failed", "dial failed"} /\ listener' = "closed"))
       /\ (loop'.why = "accept failed" => loop'.pc = "exited")
       /\ (loop.pc = "exited" =>
              \A c \in Conns : client'[c] # client[c] => client'[c] = "refused")]_vars

C16_Witness ==
    /\ loop.pc = "exited" /\ loop.why = "accept failed"
    /\ listener = "closed"
    /\ client[1] = "connected" /\ Forwarding(1)
    /\ client[2] = "refused"

\* C17: when either copy goroutine of a forwarded connection returns, the
\* local conn and the remote channel of that connection are both closed.
C17_EitherEndClosesBoth ==
    [][\A c \in Conns, d \in Dirs :
          TaskEnds(c, d) =>
              /\ sock'[Local(c)].state = "closed"
              /\ sock'[Channel(remoteConn[c])].state = "closed"]_vars

\* C18: a copy error on one forwarded connection changes nothing outside it:
\* the listener, the accept loop and the conns and goroutines of every other
\* connection are as before.
C18_CopyErrorContained ==
    [][\A c \in Conns, d \in Dirs :
          (TaskEnds(c, d) /\ task'[c][d].why = "error") =>
              /\ listener' = listener /\ loop' = loop /\ backlog' = backlog
              /\ client' = client /\ remoteConn' = remoteConn
              /\ \A e \in Conns \ {c} :
                    /\ task'[e] = task[e]
                    /\ sock'[Local(e)] = sock[Local(e)]
                    /\ (Forwarding(e) =>
                          sock'[Channel(remoteConn[e])] = sock[Channel(remoteConn[e])])]_vars

C18_Witness ==
    /\ task[1].up.pc = "ended" /\ task[1].up.why = "error"
    /\ sock[Local(1)].state = "closed"
    /\ Forwarding(2) /\ BothOpen(2)
    /\ task[2].up.pc = "copy" /\ task[2].down.pc = "copy"
    /\ listener = "open" /\ loop.pc = "accept"

IsPrefix(p, q) == Len(p) <= Len(q) /\ SubSeq(q, 1, Len(p)) = p

\* C19: for every forwarded connection the bytes delivered to the remote
\* channel are a prefix of the bytes the local client wrote, and equal to them
\* once the copy has ended on the client's end-of-stream; and likewise from
\* the remote channel to the local client.
C19_BytesInOrder ==
    \A c \in Conns : Forwarding(c) =>
        LET l == Local(c)
            r == Channel(remoteConn[c])
        IN  /\ IsPrefix(sock[r].out, Sent(l))
            /\ IsPrefix(sock[l].out, Sent(r))
            /\ (task[c].up.why = "eof" => sock[r].out = Sent(l))
            /\ (task[c].down.why = "eof" => sock[l].out = Sent(r))

C19_Witness ==
    /\ Forwarding(1)
    /\ task[1].up.why = "eof"
    /\ Len(sock[Channel(remoteConn[1])].out) = 2

\* the conn whose peer wrote byte b
Origin(b) == b[1]

\* C20: two connections forwarded at the same time have different remote
\* channels, and no byte of one is on the remote channel or the local conn
\* of the other.
C20_NoCrossing ==
    \A c, e \in Conns : (c # e /\ Forwarding(c) /\ Forwarding(e)) =>
        LET l == Local(c)
            r == Channel(remoteConn[c])
        IN  /\ remoteConn[c] # remoteConn[e]
            /\ \A i \in DOMAIN sock[r].out : Origin(sock[r].out[i]) = l
            /\ \A i \in DOMAIN sock[l].out : Origin(sock[l].out[i]) = r

C20_Witness ==
    /\ Forwarding(1) /\ Forwarding(2)
    /\ BothOpen(1) /\ BothOpen(2)
    /\ sock[Channel(remoteConn[1])].out # <<>>
    /\ sock[Channel(remoteConn[2])].out # <<>>

----------------------------------------------------------------------------
(* Properties of providerConfigure as a whole *)

\* the log entries of a setup step that failed
FailureEvents == {"StartSessionFailed", "ProcStartFailed", "HandshakeFailed", "ListenFailed"}

\* a connection to the database has been attempted
DBAttempted == "connectToMySQL" \in Range(log)

\* C21: when configuration resolution or establishment (the handshake included)
\* fails, providerConfigure returns the error and no configuration, and no
\* database connection is attempted; a database connection attempt only follows
\* a Connect that returned nil.
C21_NoDBAttemptAfterFailure ==
    /\ (pc = "failed" => err # NoError /\ ~DBAttempted)
    /\ (Range(log) \cap FailureEvents # {} => ~DBAttempted)
    /\ (DBAttempted => /\ pc = "done"
                       /\ err = NoError /\ cause = NoError
                       /\ "Connect" \in Range(log))

C21_Witness ==
    /\ DBAttempted
    /\ "SSHClient" \in Range(log) /\ "Listen" \in Range(log)

\* no tunneling block is configured
NoTunnelBlock == cfg.broker.state = "unset" /\ cfg.direct.state = "unset"

\* C22: with no tunneling block, providerConfigure accepts every documented
\* endpoint form: for a unix socket path or an endpoint without ":port" it
\* neither panics nor fails, and returns a configuration.
C22_EveryEndpointFormAccepted ==
    (NoTunnelBlock /\ cfg.endpoint.form \in {"unix", "host"})
        => pc \notin {"panic", "failed"}

\* configuration resolution returned a non-nil plan
PlanReturned == ~pfConf.nil

SSHStrategies == {"DirectSSH", "BrokerSSHCarrier"}

BrokerStrategies == {"BrokerRemoteForward", "BrokerSSHCarrier"}

\* C23: a non-nil plan selects exactly one strategy; its SSH user and key path
\* are set if and only if the strategy performs an SSH handshake, and its broker
\* target and AWS session are set if and only if the strategy uses the broker.
C23_PlanFieldsMatchStrategy ==
    PlanReturned =>
        LET s == Strategy(sessConf, pfConf)
        IN  /\ s \in SSHStrategies \cup BrokerStrategies
            /\ (pfConf.useRemotePortForward => ~sessConf.nil)
            /\ (s \in SSHStrategies => pfConf.sshUser # "" /\ pfConf.keyPath # "")
            /\ (s \notin SSHStrategies => pfConf.sshUser = "" /\ pfConf.keyPath = "")
            /\ (s \in BrokerStrategies =>
                    /\ ~sessConf.nil
                    /\ sessConf.instanceID # "" /\ sessConf.session)
            /\ (s \notin BrokerStrategies => sessConf = NilSess)

C23_Witness ==
    /\ PlanReturned /\ pc = "plan"
    /\ Strategy(sessConf, pfConf) = "BrokerRemoteForward"
    /\ MapGet(pfConfMap, "ssh_user") = "bob"
    /\ pfConf.sshUser = ""

\* every b in the log has an a somewhere before it
Before(a, b) ==
    \A j \in 1..Len(log) : log[j] = b => \E i \in 1..(j - 1) : log[i] = a

SessionEvents == {"StartSession", "StartSessionFailed", "TerminateSession"}

SSHEvents == {"SSHDial", "SSHClient", "HandshakeFailed", "SSHClose"}

ListenEvents == {"Listen", "ListenFailed"}

ProcEvents == {"ProcStart", "ProcStartFailed", "ProcKill"}

\* C24: establishment runs config resolution, then the broker session start
\* (broker strategies), then the proxy process start and the SSH handshake
\* (SSH-bearing strategies), then the listener bind; the listener is bound only
\* after a handshake that succeeded, direct mode makes no broker call, and
\* remote-forward mode makes no handshake and binds no listener.
C24_EstablishmentOrder ==
    /\ \A e \in ResourceEvents : Before("Connect", e)
    /\ Before("ParsePFConfig", "Connect")
    /\ Before("ParseSessionConfig", "ParsePFConfig")
    /\ \A e \in ProcEvents \cup (SSHEvents \ {"SSHDial"}) \cup ListenEvents :
          ~sessConf.nil => Before("StartSession", e)
    /\ (~sessConf.nil => Before("ProcStart", "SSHClient") /\ Before("ProcStart", "HandshakeFailed"))
    /\ \A e \in ListenEvents : Before("SSHClient", e)
    /\ (sessConf.nil => Range(log) \cap (SessionEvents \cup ProcEvents) = {})
    /\ (sessConf.nil => Before("SSHDial", "SSHClient"))
    /\ (~sessConf.nil => "SSHDial" \notin Range(log))
    /\ ((~sessConf.nil /\ pfConf.useRemotePortForward)
          => Range(log) \cap (SSHEvents \cup ListenEvents) = {})

C24_Witness ==
    /\ pc = "done"
    /\ ~sessConf.nil /\ ~pfConf.useRemotePortForward
    /\ SelectSeq(log, LAMBDA e : e \in ResourceEvents)
          = <<"StartSession", "ProcStart", "SSHClient", "Listen">>

\* the port segment p of an endpoint host:p (net.SplitHostPort: what follows
\* the last ':'), given the text after the endpoint's first ':'
RECURSIVE PortSegment(_)
PortSegment(s) ==
    IF \E i \in 1..Len(s) : s[i] = ":" THEN PortSegment(Tail(s)) ELSE s

\* the integer p stands for
WrittenPort == Decimal(PortSegment(cfg.endpoint.portText))

\* the remote-forward session was requested with a localPortNumber
RemoteForwardRequested == proxyCmd.made /\ pfConf.useRemotePortForward

\* C25: for every endpoint host:p the port the listener binds, and the
\* localPortNumber sent in remote-forward mode, is the integer value of p.
C25_LocalPortIsWrittenPort ==
    /\ ("Listen" \in Range(log) => pfConf.localPort = WrittenPort)
    /\ (RemoteForwardRequested => proxyCmd.localPortNumber = WrittenPort)

\* the profile the broker session is created with, as the claim states it
ResolvedProfile ==
    IF cfg.broker.aws_profile # "" THEN cfg.broker.aws_profile
    ELSE IF env.AWS_PROFILE # "" THEN env.AWS_PROFILE
    ELSE env.AWS_DEFAULT_PROFILE

\* C26: the profile argument of the bridging process is the resolved profile
\* the broker session was created with (aws_profile when set, else AWS_PROFILE,
\* else AWS_DEFAULT_PROFILE), and its region argument is that session's region.
C26_PluginArgsMatchSession ==
    proxyCmd.made =>
        /\ sessConf.profile = ResolvedProfile
        /\ proxyCmd.profile = sessConf.profile
        /\ proxyCmd.region = sessConf.region

----------------------------------------------------------------------------
(* Properties of the trust file *)

\* the line the latest verification appended
LastLine == knownHosts[Len(knownHosts)]

\* C27: a first-use key is recorded under the identity verification looks up
\* (the bastion host in direct mode, the broker target in carrier mode, never
\* the pipe's name), so the next connection to the same host finds the record.
C27_RecordedUnderLookupIdentity ==
    last.appended =>
        /\ LineMatches(LastLine, last.hostname)
        /\ LastLine.host # PipeAddr.host
        /\ last.key \in KnownKeys(knownHosts, last.hostname)

\* the trust file holds key for hostname
InFile(file, hostname, key) == key \in KnownKeys(file, hostname)

\* a verification has just been made
Verifying == last'.n = last.n + 1

\* C28: verification only appends to the trust file: the records it found are
\* kept unchanged, a mismatch or a success against a record of the file leaves
\* the file as it was, and a first-use success adds exactly one record.
C28_VerificationOnlyAppends ==
    [][/\ IsPrefix(knownHosts, knownHosts')
       /\ (Verifying /\ last'.result = "mismatch" => knownHosts' = knownHosts)
       /\ (Verifying /\ last'.result = "ok" /\ InFile(knownHosts, last'.hostname, last'.key)
             => knownHosts' = knownHosts)
       /\ (Verifying /\ last'.result = "ok" /\ ~InFile(knownHosts, last'.hostname, last'.key)
             => Len(knownHosts') = Len(knownHosts) + 1)]_vars

\* C29: when the first-use key cannot be persisted (the file cannot be opened
\* for append, or the write fails) verification returns an error; an unseen
\* host is accepted only if its record was written.
C29_UnpersistedKeyRejected ==
    /\ (last.fault => last.result = "error")
    /\ (last.fault => ~last.appended)

----------------------------------------------------------------------------
(* Stopping the accept loop *)

\* C30: the accept loop is stopped from outside by closing the listener (the
\* done channel is never closed): an exited loop has its listener closed, and
\* while the loop runs the caller of establishment holds the means to close it.
C30_CallerCanStopLoop ==
    /\ (loop.pc = "exited" => listener = "closed")
    /\ (loop.pc \in {"accept", "dial"} => "listener" \in TunnelHandle)

----------------------------------------------------------------------------
(* Accepted connections and who closes them *)

\* a goroutine that will close the local conn of connection c: the accept loop
\* while it holds c between Accept and Dial's return, or a copy goroutine still
\* running whose deferred calls close it
HasCloser(c) ==
    \/ (loop.pc = "dial" /\ loop.conn = c)
    \/ \E d \in Dirs : /\ task[c][d].pc = "copy"
                       /\ Local(c) \in Deferred(d, task[c][d])

\* C31: every local conn Accept returned is closed by the forwarder, by its
\* copy goroutines when forwarding ends or at once when the remote channel
\* cannot be opened: no accepted conn is open with no goroutine left to close it.
C31_AcceptedConnHasCloser ==
    \A c \in Conns : sock[Local(c)].state = "open" => HasCloser(c)

====
